---------------------------- MODULE Spec2Model ----------------------------
(***************************************************************************)
(* Model of the lint pass clippy_lints/src/whitelist_mutation.rs           *)
(* (FIELDS_MUTATED_BY_WHITELIST).                                          *)
(*                                                                         *)
(* The pass owns one set of strings, allowed_functions.  check_crate       *)
(* builds a FieldVisitor over that set and visits every item of the crate; *)
(* for a struct item, check_struct_fields reads the attributes attached to *)
(* the struct item and inserts every identifier token found in a           *)
(* delimited attribute argument list.  Nothing else is done: no function   *)
(* body is scanned and no lint is emitted.                                 *)
(*                                                                         *)
(* The crate under analysis is the input: structs (each with item-level    *)
(* attributes and one field "f" with field-level attributes), one impl     *)
(* block per struct, and the mutation sites of the fields.                 *)
(***************************************************************************)
EXTENDS Naturals, Integers, Sequences, FiniteSets, Bags, TLC

\* ------------------------------------------------------------- bounds

\* attributes in the whole crate
MaxAttrs == 2
\* calls of add_function before the pass runs
MaxAdds == 1

\* ------------------------------------------------------------- the input

Types == {"T", "U"}
FnNames == {"a", "b"}
AttrNames == {"mutatedby", "allow"}

Ident(s) == [kind |-> "Ident", text |-> s]
Literal(s) == [kind |-> "Literal", text |-> s]
Comma == [kind |-> "Comma", text |-> ","]

\* the argument lists  ()  (,)  (a)  ("a")  (b, "a")
ArgLists ==
    { <<>>,
      <<Comma>>,
      <<Ident("a")>>,
      <<Literal("a")>>,
      <<Ident("b"), Comma, Literal("a")>> }

\* #[name(tokens)], #[mutatedby] (no argument list), /// doc comment
AttrPool ==
    { [kind |-> "Normal", name |-> nm, args |-> "Delimited", tokens |-> ts] :
        nm \in AttrNames, ts \in ArgLists }
    \cup { [kind |-> "Normal", name |-> "mutatedby", args |-> "Empty", tokens |-> <<>>],
           [kind |-> "DocComment", name |-> "doc", args |-> "Empty", tokens |-> <<>>] }

\* an attribute written on a struct item or on its field f
Placed == [type : Types, level : {"struct", "field"}, attr : AttrPool]
PlacedSeqs == UNION { [1..n -> Placed] : n \in 0..MaxAttrs }

\* a mutation site: `self.f = e` (Assign) or `self.f += e` (AssignOp) on a value
\* of struct `type`, inside method `func` of its impl block.  Every impl block
\* has the methods a and b, each with both forms.
SitePool == [type : Types, func : FnNames, op : {"Assign", "AssignOp"}]

AttrsAt(placed, t, lv) ==
    LET sel == SelectSeq(placed, LAMBDA p : p.type = t /\ p.level = lv)
    IN  [i \in 1..Len(sel) |-> sel[i].attr]

\* the items in definition order: each struct followed by its impl block
ItemsOf(order) ==
    [i \in 1..(2 * Len(order)) |->
        IF i % 2 = 1 THEN [kind |-> "Struct", type |-> order[(i + 1) \div 2]]
                     ELSE [kind |-> "Impl", type |-> order[i \div 2]]]

Crates ==
    { [items |-> ItemsOf(<<"T", "U">>),
       sattrs |-> [t \in Types |-> AttrsAt(p, t, "struct")],
       fattrs |-> [t \in Types |-> AttrsAt(p, t, "field")],
       sites |-> SitePool] : p \in PlacedSeqs }

VARIABLES krate, allowed_functions, diagnostics, pc, idx, adds

vars == <<krate, allowed_functions, diagnostics, pc, idx, adds>>

\* ------------------------------------------------------------- the pass

\* a set whose insert removes a name that is already there
insert_toggle(set, function_name) ==
    IF function_name \in set THEN set \ {function_name}
    ELSE set \cup {function_name}

\* FxHashSet::insert
insert(set, function_name) == set \cup {function_name}

\* the filter_map over the token trees: identifier tokens only
function_names(tokens) ==
    LET idents == SelectSeq(tokens, LAMBDA tt : tt.kind = "Ident")
    IN  [i \in 1..Len(idents) |-> idents[i].text]

RECURSIVE insert_all(_, _)
insert_all(set, names) ==
    IF names = <<>> THEN set
    ELSE insert_all(insert(set, Head(names)), Tail(names))

\* a loop body that assigns the attribute's names instead of adding them
check_attr_replace(set, attr) ==
    IF attr.kind = "Normal" /\ attr.args = "Delimited"
    THEN insert_all({}, function_names(attr.tokens))
    ELSE set

\* one iteration of the loop over attrs
check_attr(set, attr) ==
    IF attr.kind = "Normal" /\ attr.args = "Delimited"
    THEN insert_all(set, function_names(attr.tokens))
    ELSE set

RECURSIVE check_struct_fields(_, _)
check_struct_fields(set, attrs) ==
    IF attrs = <<>> THEN set
    ELSE check_struct_fields(check_attr(set, Head(attrs)), Tail(attrs))

\* tcx.hir().attrs(struct_hir_id): the attributes of the struct item itself
attrs_of(k, item) == k.sattrs[item.type]

visit_item(set, k, item) ==
    IF item.kind = "Struct" THEN check_struct_fields(set, attrs_of(k, item))
    ELSE set

\* a reporter that tests each site's function against the one set
emitted_flat(sites, set) == SetToBag({ s \in sites : s.func \notin set })

\* the lints check_crate emits for the crate's mutation sites: none
emitted(sites, set) == EmptyBag

\* the names the pass would accept for a field: the one set, whatever the field
permitted(set, type) == set

\* ------------------------------------------------------------- actions

Init ==
    /\ krate \in Crates
    /\ allowed_functions = {}
    /\ diagnostics = EmptyBag
    /\ pc = "new"
    /\ idx = 0
    /\ adds = 0

AddFunction ==
    /\ pc = "new"
    /\ adds < MaxAdds
    /\ \E n \in FnNames : allowed_functions' = insert(allowed_functions, n)
    /\ adds' = adds + 1
    /\ UNCHANGED <<krate, diagnostics, pc, idx>>

CheckCrate ==
    /\ pc = "new"
    /\ pc' = "visit"
    /\ idx' = 1
    /\ UNCHANGED <<krate, allowed_functions, diagnostics, adds>>

VisitItem ==
    /\ pc = "visit"
    /\ idx <= Len(krate.items)
    /\ allowed_functions' = visit_item(allowed_functions, krate, krate.items[idx])
    /\ idx' = idx + 1
    /\ UNCHANGED <<krate, diagnostics, pc, adds>>

Return ==
    /\ pc = "visit"
    /\ idx > Len(krate.items)
    /\ pc' = "done"
    /\ diagnostics' = diagnostics (+) emitted(krate.sites, allowed_functions)
    /\ UNCHANGED <<krate, allowed_functions, idx, adds>>

Next == AddFunction \/ CheckCrate \/ VisitItem \/ Return

Spec == Init /\ [][Next]_vars

\* ------------------------------------------------------------- what the
\* annotations declare (read off the input, independently of the pass)

IsMarker(attr) == attr.kind = "Normal" /\ attr.name = "mutatedby"

IsDelimited(attr) == attr.kind = "Normal" /\ attr.args = "Delimited"

\* the field f of struct t carries a mutatedby annotation
Annotated(t) ==
    \E i \in DOMAIN krate.fattrs[t] : IsMarker(krate.fattrs[t][i])

\* identifier and string-literal tokens, each one name
RecognizedNames(tokens) ==
    { tokens[i].text :
        i \in { j \in DOMAIN tokens : tokens[j].kind \in {"Ident", "Literal"} } }

IdentNames(tokens) ==
    { tokens[i].text : i \in { j \in DOMAIN tokens : tokens[j].kind = "Ident" } }

\* the permitted set S the annotations on field f of struct t declare
DeclaredSet(t) ==
    UNION { RecognizedNames(krate.fattrs[t][i].tokens) :
              i \in { j \in DOMAIN krate.fattrs[t] : IsMarker(krate.fattrs[t][j]) } }

Count(s) == CopiesIn(s, diagnostics)

Finished == pc = "done"

\* the run started from an empty set (add_function was not called)
Fresh == adds = 0

\* ------------------------------------------------------------- C1

\* C1: when the run has finished, every mutation site (plain or compound
\* assignment) of an annotated field whose enclosing function is not in the
\* field's permitted set has exactly one diagnostic.
C1_MismatchOneDiagnostic ==
    Finished =>
        \A s \in krate.sites :
            (Annotated(s.type) /\ s.func \notin DeclaredSet(s.type))
                => Count(s) = 1

\* ------------------------------------------------------------- C2

\* C2: a mutation site of an annotated field whose enclosing function is a
\* member of the field's permitted set never has a diagnostic.
C2_MemberSilent ==
    \A s \in krate.sites :
        (Annotated(s.type) /\ s.func \in DeclaredSet(s.type)) => Count(s) = 0

\* a finished run over a crate with several permitted mutations of an
\* annotated field, among them a compound assignment
C2_Witness ==
    /\ Finished
    /\ \E s1, s2 \in krate.sites :
        /\ s1 # s2
        /\ s1.type = s2.type
        /\ s1.op = "Assign" /\ s2.op = "AssignOp"
        /\ Annotated(s1.type)
        /\ s1.func \in DeclaredSet(s1.type)
        /\ s2.func \in DeclaredSet(s1.type)

\* ------------------------------------------------------------- C3

ZeroRecognized(t) == Annotated(t) /\ DeclaredSet(t) = {}

\* C4: when the run has finished, every mutation site of a field whose
\* annotation yields no recognized token has exactly one diagnostic (deny-all),
\* and every site of a field with no annotation has none.
C4_EmptyAnnotationDeniesAll ==
    Finished =>
        \A s \in krate.sites :
            /\ ZeroRecognized(s.type) => Count(s) = 1
            /\ ~Annotated(s.type) => Count(s) = 0

\* ------------------------------------------------------------- C5

\* C5: when the run has finished, every identifier token and every
\* string-literal token of a field's mutatedby annotation is a permitted name.
C5_TokensRecorded ==
    Finished => \A t \in Types : DeclaredSet(t) \subseteq allowed_functions

\* ------------------------------------------------------------- C6

\* C6: when a run from an empty set has finished, a name is permitted for a
\* field only if an annotation on that very field lists it.
C6_KeyedPerField ==
    (Finished /\ Fresh) =>
        \A t \in Types :
            permitted(allowed_functions, t) \subseteq DeclaredSet(t)

\* ------------------------------------------------------------- C7

RECURSIVE ConcatTokens(_)
ConcatTokens(attrs) ==
    IF attrs = <<>> THEN <<>>
    ELSE Head(attrs).tokens \o ConcatTokens(Tail(attrs))

\* the attribute list with its argument-list attributes replaced by a single
\* one that lists all their tokens
Merge(attrs) ==
    LET del == SelectSeq(attrs, IsDelimited)
        rest == SelectSeq(attrs, LAMBDA x : ~IsDelimited(x))
    IN  IF del = <<>> THEN attrs
        ELSE <<[kind |-> "Normal", name |-> Head(del).name,
                args |-> "Delimited", tokens |-> ConcatTokens(del)]>> \o rest

MergedCrate ==
    [krate EXCEPT !.sattrs = [t \in Types |-> Merge(krate.sattrs[t])],
                  !.fattrs = [t \in Types |-> Merge(krate.fattrs[t])]]

RECURSIVE Extract(_, _, _)
Extract(set, k, i) ==
    IF i > Len(k.items) THEN set
    ELSE Extract(visit_item(set, k, k.items[i]), k, i + 1)

\* every identifier the attributes read by the pass list, in any order
UnionOfLists ==
    UNION { UNION { IdentNames(krate.sattrs[t][i].tokens) :
                      i \in { j \in DOMAIN krate.sattrs[t] :
                                IsDelimited(krate.sattrs[t][j]) } } :
              t \in Types }

Idempotent ==
    /\ \A n \in allowed_functions :
          insert(allowed_functions, n) = allowed_functions
    /\ Finished =>
          \A i \in DOMAIN krate.items :
              visit_item(allowed_functions, krate, krate.items[i])
                  = allowed_functions

\* C9: every step leaves the set a superset of what it was (no name is ever
\* removed), and in the state it reaches inserting a present name, or
\* extracting the same attributes again, leaves the set unchanged.
C9_IdempotentMonotonic ==
    [][allowed_functions \subseteq allowed_functions' /\ Idempotent']_vars

\* a finished run in which add_function was called and the same identifier
\* was then inserted by two different attributes
C9_Witness ==
    /\ Finished
    /\ adds > 0
    /\ \E t \in Types : \E i, j \in DOMAIN krate.sattrs[t] :
        /\ i < j
        /\ IsDelimited(krate.sattrs[t][i]) /\ IsDelimited(krate.sattrs[t][j])
        /\ IdentNames(krate.sattrs[t][i].tokens)
             \cap IdentNames(krate.sattrs[t][j].tokens) # {}

\* ------------------------------------------------------------- C10

\* C10: when a run from an empty set has finished, every permitted name is a
\* token of a mutatedby annotation attached to a field.
C10_OnlyFieldMarker ==
    (Finished /\ Fresh) =>
        allowed_functions \subseteq UNION { DeclaredSet(t) : t \in Types }

=============================================================================
